---- MODULE Spec2Model ----
(***************************************************************************)
(* Change-history state machine of ReCode: the change store (database),    *)
(* the file watcher that records saves, and the history view / timeline    *)
(* handlers that perform rollback and restore.                             *)
(*                                                                         *)
(* One workspace, a fixed set of tracked text files.  A record keeps the   *)
(* columns the handlers read or write; diff, content_hash, lines_added,    *)
(* lines_removed and the timestamps are derived from the contents and the  *)
(* insertion order and are not kept (timestamp order = id order).          *)
(***************************************************************************)
EXTENDS Integers, Sequences, FiniteSets, TLC

\* ------------------------------------------------------------------ bounds
MaxId == 4                      \* history view alone: inserts explored
MaxSaves == 3                   \* history view alone: saves by the user explored
MaxIdAll == 3                   \* with batch and timeline: inserts explored
MaxSavesAll == 2                \* with batch and timeline: saves explored
MaxIdBatch == 4                 \* batch rollback with failures: inserts explored
MaxSavesBatch == 2              \* batch rollback with failures: saves explored
MaxIdTracking == 3              \* enabling and disabling: inserts explored
MaxSavesTracking == 3           \* enabling and disabling: saves explored
MaxIdEvents == 3                \* change events followed: inserts explored
MaxSavesEvents == 2             \* change events followed: saves explored
MaxIdWatcher == 3               \* watcher alone: inserts explored
MaxSavesWatcher == 4            \* watcher alone: saves explored
MaxIdStore == 3                 \* failing store calls: inserts explored
MaxSavesStore == 2              \* failing store calls: saves explored
MaxIdWrites == 3                \* failing file writes: inserts explored
MaxSavesWrites == 2             \* failing file writes: saves explored
MaxIdMessages == 3              \* message in flight: inserts explored
MaxSavesMessages == 2           \* message in flight: saves explored

\* ------------------------------------------------------------- value sets
Files    == {"a.ts", "b.ts"}
Contents == {"x", "xy"}
InitialContent == "x"

NULL    == 0                    \* SQL NULL of an INTEGER column
NoBatch == <<"null", 0>>        \* SQL NULL of the batch_id column
NoCtx   == [skipRecording |-> FALSE, operationType |-> "none", rollbackToId |-> NULL]
NoData  == [target |-> NULL, laterChanges |-> <<>>]
NoDialog == [kind |-> "none", ids |-> {}, change |-> {}]

MAX_HISTORY == 100              \* HistoryViewProvider.MAX_HISTORY
RECENT_LIMIT == 100             \* getRecentChanges(100) in _getHtmlForWebview
HistorySizes == {2, 3, 1000}    \* values of recode.maxHistorySize tried

VARIABLES
  changes,            \* rows of table changes
  nextId,             \* AUTOINCREMENT: next rowid
  disk,               \* file contents on disk
  fileCache,          \* FileWatcher.fileCache
  debounceTimers,     \* FileWatcher.debounceTimers (files with a timer)
  pendingOperations,  \* FileWatcher.pendingOperations
  currentBatchId,     \* FileWatcher.currentBatchId (batchTimer pending iff set)
  view,               \* rows of the history webview as last rendered
  refreshPending,     \* a setTimeout(refresh, REFRESH_DELAY_MS) is pending
  rollbackData,       \* webview: data of the open rollback modal
  dialog,             \* open VS Code confirmation dialog and what its handler captured
  cleanupPending,     \* the 30 s start-up cleanup timer has not fired yet
  saves,              \* number of saves by the user so far
  restored,           \* ids of the records a restore has deleted
  limits,             \* exploration limits of the run (fixed by Init)
  tracking,           \* recode.enabled, whether watcher.start() ran, FileWatcher.enabled
  expiries,           \* history: the values of nextId at which the batch timer expired
  events,             \* per file: history of the change events its pending timer merged
  lastOp              \* last handler that ran, its argument and whether it reported success

vars == <<changes, nextId, disk, fileCache, debounceTimers, pendingOperations,
          currentBatchId, view, refreshPending, rollbackData, dialog,
          cleanupPending, saves, restored, limits, tracking, events, expiries, lastOp>>

Ids == 1..limits.ids

\* ------------------------------------------------------------ the store
Max(S) == CHOOSE m \in S : \A n \in S : n <= m

IdsOf(ch) == {r.id : r \in ch}

\* rows sorted by id descending (ORDER BY id DESC)
RECURSIVE OrderDesc(_)
OrderDesc(ch) ==
  IF ch = {} THEN <<>>
  ELSE LET m == CHOOSE r \in ch : \A q \in ch : q.id <= r.id
       IN <<m>> \o OrderDesc(ch \ {m})

Take(s, n) == IF Len(s) <= n THEN s ELSE SubSeq(s, 1, n)

Range(s) == {s[i] : i \in 1..Len(s)}

\* variant: the key is a plain rowid (largest id in the table plus one)
insertChangeRowid(ch, id, filePath, oldContent, newContent, batchId, operationType, rollbackToId) ==
  ch \cup {[id |-> Max(IdsOf(ch) \cup {0}) + 1,
            file_path |-> filePath,
            old_content |-> oldContent,
            new_content |-> newContent,
            batch_id |-> batchId,
            operation_type |-> operationType,
            rollback_to_id |-> rollbackToId,
            covered_by_rollback_id |-> NULL]}

\* INSERT INTO changes: id is the AUTOINCREMENT key handed out by the caller's nextId
insertChange(ch, id, filePath, oldContent, newContent, batchId, operationType, rollbackToId) ==
  ch \cup {[id |-> id,
            file_path |-> filePath,
            old_content |-> oldContent,
            new_content |-> newContent,
            batch_id |-> batchId,
            operation_type |-> operationType,
            rollback_to_id |-> rollbackToId,
            covered_by_rollback_id |-> NULL]}

\* variant: the oldest rows instead of the most recent ones
getRecentChangesOldest(ch, limit) ==
  LET n == Cardinality(ch)
      s == OrderDesc(ch)
  IN IF n <= limit THEN s ELSE SubSeq(s, n - limit + 1, n)

\* SELECT * FROM changes ORDER BY id DESC LIMIT ?
getRecentChanges(ch, limit) == Take(OrderDesc(ch), limit)

getChangeById(ch, id) == {r \in ch : r.id = id}

\* variant: the SELECT lacks the file_path condition
getChangesAnyFile(ch, filePath, limit) == Take(OrderDesc(ch), limit)

getChangesByFile(ch, filePath, limit) ==
  Take(OrderDesc({r \in ch : r.file_path = filePath}), limit)

cleanup(ch, maxSize) ==
  LET keep == Range(Take(OrderDesc(ch), maxSize))
  IN {r \in ch : r \in keep}

\* timestamps grow with ids: the rows older than the cutoff are the rows
\* with id <= cutoffId for some cutoffId
cleanupOldRecords(ch, cutoffId) == {r \in ch : r.id > cutoffId}

\* variant: the DELETE matches no row
deleteChangeNoRow(ch, id) == ch

deleteChange(ch, id) == {r \in ch : r.id # id}

\* variant: the UPDATE also requires covered_by_rollback_id IS NULL
markCoveredOnlyUncovered(ch, filePath, rollbackId, rollbackToId) ==
  {IF /\ r.file_path = filePath /\ r.id > rollbackToId /\ r.id < rollbackId
      /\ r.covered_by_rollback_id = NULL
     THEN [r EXCEPT !.covered_by_rollback_id = rollbackId]
     ELSE r : r \in ch}

\* variant: the superseded rows are deleted instead of marked
markCoveredDelete(ch, filePath, rollbackId, rollbackToId) ==
  {r \in ch : ~(r.file_path = filePath /\ r.id > rollbackToId /\ r.id < rollbackId)}

\* variant: the UPDATE lacks the file_path condition
markCoveredAnyFile(ch, filePath, rollbackId, rollbackToId) ==
  {IF r.id > rollbackToId /\ r.id < rollbackId
     THEN [r EXCEPT !.covered_by_rollback_id = rollbackId]
     ELSE r : r \in ch}

markCoveredByRollback(ch, filePath, rollbackId, rollbackToId) ==
  {IF r.file_path = filePath /\ r.id > rollbackToId /\ r.id < rollbackId
     THEN [r EXCEPT !.covered_by_rollback_id = rollbackId]
     ELSE r : r \in ch}

\* the values the two calls return (SELECT COUNT(*) with the UPDATE's WHERE)
markCoveredCount(ch, filePath, rollbackId, rollbackToId) ==
  Cardinality({r \in ch : r.file_path = filePath /\ r.id > rollbackToId /\ r.id < rollbackId})

clearCoveredCount(ch, rollbackId) ==
  Cardinality({r \in ch : r.covered_by_rollback_id = rollbackId})

\* variant: the UPDATE selects by id instead of covered_by_rollback_id
clearCoveredById(ch, rollbackId) ==
  {IF r.id = rollbackId
     THEN [r EXCEPT !.covered_by_rollback_id = NULL]
     ELSE r : r \in ch}

clearCoveredByRollback(ch, rollbackId) ==
  {IF r.covered_by_rollback_id = rollbackId
     THEN [r EXCEPT !.covered_by_rollback_id = NULL]
     ELSE r : r \in ch}


\* ------------------------------------------- derived status (history view)
\* win is the set of rows the view was given (getRecentChanges(100))
\* variant: one latest id for all files
latestIdOfAll(win, filePath) ==
  IF win = {} THEN NULL ELSE Max({r.id : r \in win})

latestIdByFile(win, filePath) ==
  LET ids == {r.id : r \in {q \in win : q.file_path = filePath}}
  IN IF ids = {} THEN NULL ELSE Max(ids)

isLatestForFile(win, change) == latestIdByFile(win, change.file_path) = change.id

canRestore(win, change) ==
  change.operation_type = "rollback" /\ isLatestForFile(win, change)

isRollbackTarget(win, change) ==
  \E c \in win : /\ c.operation_type = "rollback"
                 /\ c.rollback_to_id = change.id
                 /\ c.file_path = change.file_path

isSelectable(win, change) ==
  /\ change.covered_by_rollback_id = NULL
  /\ change.operation_type # "rollback"
  /\ ~isRollbackTarget(win, change)

\* variant: the restore button for every rollback record
showsRestoreAnyRollback(win, change) == change.operation_type = "rollback"

\* the file-actions template: restore button if canRestore, else rollback
\* button if selectable, else none
showsRestore(win, change) == canRestore(win, change)

showsRollback(win, change) == ~canRestore(win, change) /\ isSelectable(win, change)

getHtmlForWebview(ch) ==
  LET win == Range(getRecentChanges(ch, RECENT_LIMIT))
  IN {[id |-> r.id,
       covered |-> r.covered_by_rollback_id # NULL,
       restore |-> showsRestore(win, r),
       rollback |-> showsRollback(win, r),
       selectable |-> isSelectable(win, r)] : r \in win}

\* refresh(): assigning webview.html reloads the page (the open modal and
\* its rollbackData are gone) when the html differs from the current one
refresh(ch) ==
  /\ view' = getHtmlForWebview(ch)
  /\ rollbackData' = IF getHtmlForWebview(ch) = view THEN rollbackData ELSE NoData

\* ---------------------------------------------------------------- watcher
SkipCtx == [skipRecording |-> TRUE, operationType |-> "none", rollbackToId |-> NULL]

\* variant: the context is not stored
setOperationContextDropped(po, filePath, context) == po

setOperationContext(po, filePath, context) == [po EXCEPT ![filePath] = context]

\* variant: the context stays in place
clearOperationContextKept(po, filePath) == po

clearOperationContext(po, filePath) == [po EXCEPT ![filePath] = NoCtx]

\* handleFileChange: a tracked text file changed; (re)arm its debounce timer
handleFileChange(timers, filePath) == timers \cup {filePath}

\* the events of the FileSystemWatcher are delivered once start() has created
\* it, and onDidChange returns at once while the watcher is not enabled
watching(tr) == tr.started /\ tr.enabled

\* watcher.onDidChange: the write to filePath reaches handleFileChange or not
onDidChange(timers, filePath, tr) ==
  IF watching(tr) THEN handleFileChange(timers, filePath) ELSE timers

\* history of the pending timer of a file: whether a rollback or restore
\* wrote at one of the change events it merged, who wrote at the last one,
\* and the cached content at the first one
NoEvents == [core |-> FALSE, last |-> "none", cached |-> "none"]

noteEvent(ev, filePath, writer, tr) ==
  IF watching(tr) /\ limits.history
  THEN [ev EXCEPT ![filePath] = [core |-> @.core \/ writer = "core",
                                 last |-> writer,
                                 cached |-> IF @.last = "none" THEN fileCache[filePath]
                                            ELSE @.cached]]
  ELSE ev

\* variant: every recording starts a batch
getCurrentBatchIdFresh(cur, nid) == <<"batch", nid>>

\* getCurrentBatchId: keep the current batch or start one; the generated id
\* is unique, modelled by the id of the first record of the batch
getCurrentBatchId(cur, nid) == IF cur = NoBatch THEN <<"batch", nid>> ELSE cur

\* fault: a store call of the handler threw and the store method caught it
Op(op, id, ok, count) == [op |-> op, id |-> id, ok |-> ok, count |-> count, fault |-> FALSE]

OpFault(op, id, ok, count, fault) == [Op(op, id, ok, count) EXCEPT !.fault = fault]

Other == Op("other", NULL, TRUE, 0)

\* the user (or a tool) saves file f with content c; onDidChange fires
UserSave(f, c) ==
  /\ saves < limits.saves
  /\ saves' = saves + 1
  /\ disk' = [disk EXCEPT ![f] = c]
  /\ debounceTimers' = onDidChange(debounceTimers, f, tracking)
  /\ events' = noteEvent(events, f, "user", tracking)
  /\ lastOp' = Other
  /\ UNCHANGED <<changes, nextId, fileCache, pendingOperations, currentBatchId,
                 view, refreshPending, rollbackData, dialog, cleanupPending,
                 restored, limits, tracking, expiries>>

\* recordChange: if (oldContent === newContent) nothing is recorded
sameContent(oldContent, newContent) == oldContent = newContent

\* the debounce timer of f fires: recordChange(f), then the timer is dropped
recordChange(f) ==
  /\ f \in debounceTimers
  /\ debounceTimers' = debounceTimers \ {f}
  /\ events' = [events EXCEPT ![f] = NoEvents]
  /\ LET oldContent == fileCache[f]
         newContent == disk[f]
         ctx == pendingOperations[f]
     IN IF sameContent(oldContent, newContent)
        THEN /\ pendingOperations' = clearOperationContext(pendingOperations, f)
             /\ lastOp' = Op("recordChange", NULL, FALSE, 0)
             /\ UNCHANGED <<changes, nextId, fileCache, currentBatchId, view, rollbackData>>
        ELSE IF ctx.skipRecording
        THEN /\ pendingOperations' = clearOperationContext(pendingOperations, f)
             /\ fileCache' = [fileCache EXCEPT ![f] = newContent]
             /\ lastOp' = Op("recordChange", NULL, FALSE, 0)
             /\ UNCHANGED <<changes, nextId, currentBatchId, view, rollbackData>>
        ELSE /\ nextId <= limits.ids
             /\ pendingOperations' = clearOperationContext(pendingOperations, f)
             /\ LET batchId == IF ctx.operationType = "rollback" THEN NoBatch
                               ELSE getCurrentBatchId(currentBatchId, nextId)
                    operationType == IF ctx.operationType = "none" THEN "edit"
                                     ELSE ctx.operationType
                IN /\ changes' = insertChange(changes, nextId, f, oldContent, newContent,
                                              batchId, operationType, ctx.rollbackToId)
                   /\ currentBatchId' = IF ctx.operationType = "rollback"
                                        THEN currentBatchId ELSE batchId
             /\ nextId' = nextId + 1
             /\ fileCache' = [fileCache EXCEPT ![f] = newContent]
             /\ refresh(changes')
             /\ lastOp' = Op("recordChange", NULL, TRUE, 0)
  /\ UNCHANGED <<disk, refreshPending, dialog, cleanupPending, saves, restored, limits, tracking, expiries>>

\* the batch timer (BATCH_TIMEOUT) expires
BatchTimerExpire ==
  /\ currentBatchId # NoBatch
  /\ currentBatchId' = NoBatch
  /\ expiries' = IF limits.history THEN expiries \cup {nextId} ELSE expiries
  /\ lastOp' = Other
  /\ UNCHANGED <<changes, nextId, disk, fileCache, debounceTimers, events, pendingOperations,
                 view, refreshPending, rollbackData, dialog, cleanupPending, saves, restored, limits, tracking>>


\* ----------------------------------------------------------- history view
\* findChange: one workspace, so the row with that id of its database
findChange(ch, changeId) == getChangeById(ch, changeId)

\* what a rollback / a restore writes to the file
\* variant: the content before the target's change
rollbackContentOld(change) == change.old_content

rollbackContent(change) == change.new_content

restoreContent(change) == change.old_content

\* variant: the rollback record is inserted without the batch id
rollbackStoreNoBatch(ch, rollbackId, change, currentContent, batchId) ==
  markCoveredByRollback(
    insertChange(ch, rollbackId, change.file_path, currentContent,
                 change.new_content, NoBatch, "rollback", change.id),
    change.file_path, rollbackId, change.id)

\* variant: the marking range ends below the id the insert returned
rollbackStoreStaleBound(ch, rollbackId, change, currentContent, batchId) ==
  markCoveredByRollback(
    insertChange(ch, rollbackId, change.file_path, currentContent,
                 change.new_content, batchId, "rollback", change.id),
    change.file_path, rollbackId - 1, change.id)

\* the two store calls of a rollback: insertChange(..., 'rollback', target)
\* and markCoveredByRollback(file, rollbackId, target)
rollbackStore(ch, rollbackId, change, currentContent, batchId) ==
  markCoveredByRollback(
    insertChange(ch, rollbackId, change.file_path, currentContent,
                 change.new_content, batchId, "rollback", change.id),
    change.file_path, rollbackId, change.id)

\* the two store calls of a restore: clearCoveredByRollback, deleteChange
restoreStore(ch, changeId) == deleteChange(clearCoveredByRollback(ch, changeId), changeId)

UiFree == dialog.kind = "none"            \* no VS Code modal dialog is open
ViewFree == UiFree /\ rollbackData = NoData   \* nor the webview's rollback modal

\* message 'rollback' (preview): the rollback button of a row was clicked
handleRollback(changeId) ==
  /\ ViewFree
  /\ \E row \in view : row.id = changeId /\ row.rollback
  /\ LET result == findChange(changes, changeId)
     IN IF result = {}
        THEN /\ lastOp' = Op("handleRollback", changeId, FALSE, 0)
             /\ UNCHANGED rollbackData
        ELSE LET change == CHOOSE r \in result : TRUE
                 allChanges == getChangesByFile(changes, change.file_path, MAX_HISTORY)
                 laterChanges == SelectSeq(allChanges, LAMBDA c : c.id >= changeId)
             IN /\ rollbackData' = [target |-> change.id,
                                    laterChanges |-> [i \in 1..Len(laterChanges) |-> laterChanges[i].id]]
                /\ lastOp' = Op("handleRollback", changeId, TRUE, 0)
  /\ UNCHANGED <<changes, nextId, disk, fileCache, debounceTimers, events, pendingOperations,
                 currentBatchId, view, refreshPending, dialog, cleanupPending, saves, restored, limits, tracking, expiries>>

\* the modal's cancel button
closeModal ==
  /\ UiFree
  /\ rollbackData # NoData
  /\ rollbackData' = NoData
  /\ lastOp' = Op("closeModal", NULL, TRUE, 0)
  /\ UNCHANGED <<changes, nextId, disk, fileCache, debounceTimers, events, pendingOperations,
                 currentBatchId, view, refreshPending, dialog, cleanupPending, saves, restored, limits, tracking, expiries>>

\* executeRollback(targetChangeId); markFails: markCoveredByRollback catches
\* an exception and returns 0; writeFails: writeFileContent throws before
\* anything is written (mkdirSync or the open of writeFileSync fails)
executeRollbackOf(targetChangeId, markFails, writeFails) ==
  /\ LET result == findChange(changes, targetChangeId)
     IN IF result = {}
        THEN /\ lastOp' = Op("executeRollback", targetChangeId, FALSE, 0)
             /\ UNCHANGED <<changes, nextId, disk, debounceTimers, events, pendingOperations,
                            refreshPending>>
        ELSE LET change == CHOOSE r \in result : TRUE
                 filePath == change.file_path
                 currentContent == disk[filePath]
                 rollbackId == nextId
             IN /\ nextId <= limits.ids
                /\ changes' = IF markFails
                              THEN insertChange(changes, rollbackId, change.file_path, currentContent,
                                                change.new_content, NoBatch, "rollback", change.id)
                              ELSE rollbackStore(changes, rollbackId, change, currentContent, NoBatch)
                /\ nextId' = nextId + 1
                /\ pendingOperations' = setOperationContext(pendingOperations, filePath, SkipCtx)
                /\ IF writeFails
                   THEN UNCHANGED <<disk, debounceTimers, events, refreshPending>>
                   ELSE /\ disk' = [disk EXCEPT ![filePath] = rollbackContent(change)]
                        /\ debounceTimers' = onDidChange(debounceTimers, filePath, tracking)
                        /\ events' = noteEvent(events, filePath, "core", tracking)
                        /\ refreshPending' = TRUE
                /\ lastOp' = OpFault("executeRollback", targetChangeId, ~writeFails,
                                    IF markFails THEN 0
                                    ELSE markCoveredCount(changes, filePath, rollbackId, targetChangeId),
                                    markFails \/ writeFails)
  /\ UNCHANGED <<fileCache, currentBatchId, view, cleanupPending, saves, restored, limits, tracking, expiries>>

\* message 'confirmRollback': the modal's confirm button (it closes the
\* modal), the click and its handler taken as one step
executeRollbackRun(markFails, writeFails) ==
  /\ UiFree
  /\ rollbackData # NoData
  /\ rollbackData' = NoData
  /\ executeRollbackOf(rollbackData.target, markFails, writeFails)
  /\ UNCHANGED dialog

\* the webview's confirmRollback(): the message is posted to the extension
\* host and the modal closed; the message in flight is kept in dialog, with
\* the records the modal listed
confirmRollback ==
  /\ UiFree
  /\ rollbackData # NoData
  /\ dialog' = [kind |-> "confirmRollback", ids |-> {rollbackData.target},
                change |-> {r \in changes : \E i \in 1..Len(rollbackData.laterChanges) :
                                               rollbackData.laterChanges[i] = r.id}]
  /\ rollbackData' = NoData
  /\ lastOp' = Op("confirmRollback", rollbackData.target, TRUE, 0)
  /\ UNCHANGED <<changes, nextId, disk, fileCache, debounceTimers, events, pendingOperations,
                 currentBatchId, view, refreshPending, cleanupPending, saves, restored, limits, tracking, expiries>>

\* onDidReceiveMessage: the extension host handles the message in flight
onDidReceiveMessage ==
  /\ dialog.kind = "confirmRollback"
  /\ dialog' = NoDialog
  /\ executeRollbackOf(CHOOSE id \in dialog.ids : TRUE, FALSE, FALSE)
  /\ UNCHANGED rollbackData

\* the store works
executeRollback == executeRollbackRun(FALSE, FALSE)

\* markCoveredByRollback fails
executeRollbackMarkFails == executeRollbackRun(TRUE, FALSE)

\* the file write fails
executeRollbackWriteFails == executeRollbackRun(FALSE, TRUE)

\* message 'restore': the restore button of a row was clicked; clearFails,
\* deleteFails: clearCoveredByRollback / deleteChange catches an exception;
\* writeFails: writeFileContent throws before anything is written
handleRestoreRun(changeId, writeFails, clearFails, deleteFails) ==
  /\ ViewFree
  /\ \E row \in view : row.id = changeId /\ row.restore
  /\ LET result == findChange(changes, changeId)
     IN IF result = {}
        THEN /\ lastOp' = Op("handleRestore", changeId, FALSE, 0)
             /\ UNCHANGED <<changes, disk, debounceTimers, events, pendingOperations, refreshPending,
                            restored>>
        ELSE LET change == CHOOSE r \in result : TRUE
                 filePath == change.file_path
             IN IF change.operation_type # "rollback"
                THEN /\ lastOp' = Op("handleRestore", changeId, FALSE, 0)
                     /\ UNCHANGED <<changes, disk, debounceTimers, events, pendingOperations,
                                    refreshPending, restored>>
                ELSE IF writeFails
                THEN /\ pendingOperations' =
                          clearOperationContext(
                            setOperationContext(pendingOperations, filePath, SkipCtx), filePath)
                     /\ lastOp' = OpFault("handleRestore", changeId, FALSE, 0, TRUE)
                     /\ UNCHANGED <<changes, disk, debounceTimers, events, refreshPending, restored>>
                ELSE /\ pendingOperations' = setOperationContext(pendingOperations, filePath, SkipCtx)
                     /\ disk' = [disk EXCEPT ![filePath] = restoreContent(change)]
                     /\ debounceTimers' = onDidChange(debounceTimers, filePath, tracking)
                     /\ events' = noteEvent(events, filePath, "core", tracking)
                     /\ changes' =
                          LET cleared == IF clearFails THEN changes
                                         ELSE clearCoveredByRollback(changes, changeId)
                          IN IF deleteFails THEN cleared ELSE deleteChange(cleared, changeId)
                     /\ refreshPending' = TRUE
                     /\ restored' = IF deleteFails THEN restored ELSE restored \cup {changeId}
                     /\ lastOp' = OpFault("handleRestore", changeId, TRUE,
                                         IF clearFails THEN 0
                                         ELSE clearCoveredCount(changes, changeId),
                                         clearFails \/ deleteFails)
  /\ UNCHANGED <<nextId, fileCache, currentBatchId, view, rollbackData, dialog,
                 cleanupPending, saves, limits, tracking, expiries>>

\* the store works
handleRestore(changeId) == handleRestoreRun(changeId, FALSE, FALSE, FALSE)

\* clearCoveredByRollback or deleteChange fails
handleRestoreStoreFails(changeId) ==
  \E clearFails \in BOOLEAN, deleteFails \in BOOLEAN :
    /\ clearFails \/ deleteFails
    /\ handleRestoreRun(changeId, FALSE, clearFails, deleteFails)

\* the file write fails
handleRestoreWriteFails(changeId) == handleRestoreRun(changeId, TRUE, FALSE, FALSE)

\* the delayed refresh after a rollback, a batch rollback or a restore
refreshTimer ==
  /\ refreshPending
  /\ refreshPending' = FALSE
  /\ refresh(changes)
  /\ lastOp' = Other
  /\ UNCHANGED <<changes, nextId, disk, fileCache, debounceTimers, events, pendingOperations,
                 currentBatchId, dialog, cleanupPending, saves, restored, limits, tracking, expiries>>


\* ------------------------------------------------------- batch rollback
\* message 'batchRollback': the checked rows of the view; the handler then
\* awaits the confirmation dialog
handleBatchRollback(changeIds) ==
  /\ ViewFree
  /\ changeIds # {}
  /\ \A id \in changeIds : \E row \in view : row.id = id /\ row.selectable
  /\ dialog' = [kind |-> "batch", ids |-> changeIds, change |-> {}]
  /\ lastOp' = Other
  /\ UNCHANGED <<changes, nextId, disk, fileCache, debounceTimers, events, pendingOperations,
                 currentBatchId, view, refreshPending, rollbackData, cleanupPending, saves, restored, limits, tracking, expiries>>

\* variant: per file the newest of the rows found
rollbackTargetsNewest(ch, changeIds) ==
  LET found == {r \in ch : r.id \in changeIds}
  IN {r \in found : \A q \in found : q.file_path = r.file_path => q.id <= r.id}

\* steps 2 and 3: the rows found, grouped by file; per file the oldest one
rollbackTargets(ch, changeIds) ==
  LET found == {r \in ch : r.id \in changeIds}
  IN {r \in found : \A q \in found : q.file_path = r.file_path => r.id <= q.id}

Orders(S) == {s \in [1..Cardinality(S) -> S] : \A i, j \in 1..Cardinality(S) : s[i] = s[j] => i = j}

\* what the try block of one target does: "ok", or an exception before the
\* insert (readFileSync, insertChange), or one in writeFileContent
Outcomes == {"ok", "failBefore", "failWrite"}

\* one pass of the loop body (try / catch) for the first target
batchStep(st, change, batchId, outcome) ==
  LET filePath == change.file_path
      currentContent == st.disk[filePath]
      rollbackId == st.nextId
  IN IF outcome = "failBefore"
     THEN [st EXCEPT !.failCount = @ + 1]
     ELSE IF outcome = "failWrite"
     THEN [st EXCEPT !.changes = rollbackStore(st.changes, rollbackId, change, currentContent, batchId),
                     !.nextId = rollbackId + 1,
                     !.pendingOperations = setOperationContext(st.pendingOperations, filePath, SkipCtx),
                     !.failCount = @ + 1]
     ELSE [changes |-> rollbackStore(st.changes, rollbackId, change, currentContent, batchId),
           nextId |-> rollbackId + 1,
           pendingOperations |-> setOperationContext(st.pendingOperations, filePath, SkipCtx),
           disk |-> [st.disk EXCEPT ![filePath] = rollbackContent(change)],
           debounceTimers |-> onDidChange(st.debounceTimers, filePath, st.tracking),
           events |-> noteEvent(st.events, filePath, "core", st.tracking),
           tracking |-> st.tracking,
           successCount |-> st.successCount + 1,
           failCount |-> st.failCount]

\* variant: the first exception ends the loop
RECURSIVE batchLoopAbort(_, _, _, _)
batchLoopAbort(st, targets, batchId, outcomes) ==
  IF targets = <<>> THEN st
  ELSE IF Head(outcomes) # "ok"
  THEN batchStep(st, Head(targets), batchId, Head(outcomes))
  ELSE batchLoopAbort(batchStep(st, Head(targets), batchId, Head(outcomes)),
                      Tail(targets), batchId, Tail(outcomes))

\* step 4: the loop over the targets, in the order the files were selected
RECURSIVE batchLoop(_, _, _, _)
batchLoop(st, targets, batchId, outcomes) ==
  IF targets = <<>> THEN st
  ELSE batchLoop(batchStep(st, Head(targets), batchId, Head(outcomes)),
                 Tail(targets), batchId, Tail(outcomes))

\* the user confirms the batch dialog; failing says whether some target's
\* try block throws
batchRun(failing) ==
  /\ dialog.kind = "batch"
  /\ dialog' = NoDialog
  /\ \E targets \in Orders(rollbackTargets(changes, dialog.ids)) :
     \E outcomes \in [1..Len(targets) -> Outcomes] :
       /\ failing = (\E i \in 1..Len(targets) : outcomes[i] # "ok")
       /\ LET st == batchLoop([changes |-> changes, nextId |-> nextId,
                               pendingOperations |-> pendingOperations, disk |-> disk,
                               debounceTimers |-> debounceTimers,
                               events |-> events, tracking |-> tracking,
                               successCount |-> 0, failCount |-> 0],
                              targets, <<"batch_rollback", nextId>>, outcomes)
          IN /\ st.nextId - 1 <= limits.ids
             /\ changes' = st.changes
             /\ nextId' = st.nextId
             /\ pendingOperations' = st.pendingOperations
             /\ disk' = st.disk
             /\ debounceTimers' = st.debounceTimers
             /\ events' = st.events
             /\ lastOp' = Op("batchConfirm", st.successCount, st.failCount = 0, st.failCount)
  /\ refreshPending' = TRUE
  /\ UNCHANGED <<fileCache, currentBatchId, view, rollbackData, cleanupPending, saves, restored, limits, tracking, expiries>>

\* no storage or file-system failure
batchConfirm == batchRun(FALSE)

\* an exception in the try block of at least one target
batchConfirmFailing == batchRun(TRUE)

\* the user dismisses a confirmation dialog (batch or timeline)
dialogCancel ==
  /\ dialog.kind # "none"
  /\ dialog' = NoDialog
  /\ lastOp' = Op("dialogCancel", NULL, TRUE, 0)
  /\ UNCHANGED <<changes, nextId, disk, fileCache, debounceTimers, events, pendingOperations,
                 currentBatchId, view, refreshPending, rollbackData, cleanupPending, saves, restored, limits, tracking, expiries>>

\* ------------------------------------------------------ timeline rollback
\* variant: the command commits without awaiting the confirmation dialog
rollbackFromTimelineDirect(changeId) ==
  /\ UiFree
  /\ nextId <= limits.ids
  /\ \E change \in getChangeById(changes, changeId) :
       /\ changes' = rollbackStore(changes, nextId, change, disk[change.file_path], NoBatch)
       /\ nextId' = nextId + 1
       /\ pendingOperations' = setOperationContext(pendingOperations, change.file_path, SkipCtx)
       /\ disk' = [disk EXCEPT ![change.file_path] = rollbackContent(change)]
       /\ debounceTimers' = onDidChange(debounceTimers, change.file_path, tracking)
       /\ events' = noteEvent(events, change.file_path, "core", tracking)
       /\ refresh(changes')
       /\ lastOp' = Op("timelineConfirm", changeId, TRUE,
                      markCoveredCount(changes, change.file_path, nextId, changeId))
  /\ UNCHANGED <<fileCache, currentBatchId, refreshPending, dialog, cleanupPending, saves, restored, limits, tracking, expiries>>

\* command recode.rollbackFromTimeline(changeId): the timeline offers the
\* rollback for every node but the last and is not re-rendered afterwards,
\* so changeId is any id; the row is read before the dialog is awaited
rollbackFromTimeline(changeId) ==
  /\ UiFree
  /\ LET change == getChangeById(changes, changeId)
     IN IF change = {}
        THEN /\ lastOp' = Op("rollbackFromTimeline", changeId, FALSE, 0)
             /\ UNCHANGED dialog
        ELSE /\ dialog' = [kind |-> "timeline", ids |-> {changeId}, change |-> change]
             /\ lastOp' = Op("rollbackFromTimeline", changeId, TRUE, 0)
  /\ UNCHANGED <<changes, nextId, disk, fileCache, debounceTimers, events, pendingOperations,
                 currentBatchId, view, refreshPending, rollbackData, cleanupPending, saves, restored, limits, tracking, expiries>>

\* the user confirms the timeline dialog
timelineConfirm ==
  /\ dialog.kind = "timeline"
  /\ dialog' = NoDialog
  /\ nextId <= limits.ids
  /\ LET change == CHOOSE r \in dialog.change : TRUE
         changeId == CHOOSE id \in dialog.ids : TRUE
         filePath == change.file_path
         currentContent == disk[filePath]
         rollbackId == nextId
     IN /\ changes' = markCoveredByRollback(
                        insertChange(changes, rollbackId, change.file_path, currentContent,
                                     change.new_content, NoBatch, "rollback", changeId),
                        change.file_path, rollbackId, changeId)
        /\ nextId' = nextId + 1
        /\ pendingOperations' = setOperationContext(pendingOperations, filePath, SkipCtx)
        /\ disk' = [disk EXCEPT ![filePath] = rollbackContent(change)]
        /\ debounceTimers' = onDidChange(debounceTimers, filePath, tracking)
        /\ events' = noteEvent(events, filePath, "core", tracking)
        /\ refresh(changes')
        /\ lastOp' = Op("timelineConfirm", changeId, TRUE,
                       markCoveredCount(changes, filePath, rollbackId, changeId))
  /\ UNCHANGED <<fileCache, currentBatchId, refreshPending, cleanupPending, saves, restored, limits, tracking, expiries>>

\* -------------------------------------------------------------- retention
\* the start-up timer (30 s): cleanupOldRecords(retentionDays), cleanup(maxHistorySize)
cleanupTimer ==
  /\ cleanupPending
  /\ cleanupPending' = FALSE
  /\ \E cutoffId \in 0..limits.ids, maxSize \in HistorySizes :
       changes' = cleanup(cleanupOldRecords(changes, cutoffId), maxSize)
  /\ lastOp' = Other
  /\ UNCHANGED <<nextId, disk, fileCache, debounceTimers, events, pendingOperations,
                 currentBatchId, view, refreshPending, rollbackData, dialog, saves, restored, limits, tracking, expiries>>

\* onDidChangeConfiguration(recode.retentionDays): cleanupOldRecords, and a
\* refresh when rows were deleted
retentionChange ==
  /\ \E cutoffId \in 0..limits.ids :
       /\ changes' = cleanupOldRecords(changes, cutoffId)
       /\ IF changes' # changes THEN refresh(changes') ELSE UNCHANGED <<view, rollbackData>>
  /\ lastOp' = Other
  /\ UNCHANGED <<nextId, disk, fileCache, debounceTimers, events, pendingOperations,
                 currentBatchId, refreshPending, dialog, cleanupPending, saves, restored, limits, tracking, expiries>>

\* ------------------------------------------------- enabling and disabling
\* command recode.enable: start() on every watcher (initFileCache reads
\* every file again, setupWatcher creates a FileSystemWatcher), then
\* setEnabled(true) and the setting is written
enableCommand ==
  /\ tracking' = [config |-> TRUE, started |-> TRUE, enabled |-> TRUE]
  /\ fileCache' = [f \in Files |-> disk[f]]
  /\ lastOp' = Op("enable", NULL, TRUE, 0)
  /\ UNCHANGED <<changes, nextId, disk, debounceTimers, events, pendingOperations,
                 currentBatchId, view, refreshPending, rollbackData, dialog,
                 cleanupPending, saves, restored, limits, expiries>>

\* command recode.disable: setEnabled(false) and the setting is written
disableCommand ==
  /\ tracking' = [tracking EXCEPT !.config = FALSE, !.enabled = FALSE]
  /\ lastOp' = Op("disable", NULL, TRUE, 0)
  /\ UNCHANGED <<changes, nextId, disk, fileCache, debounceTimers, events, pendingOperations,
                 currentBatchId, view, refreshPending, rollbackData, dialog,
                 cleanupPending, saves, restored, limits, expiries>>

\* onDidChangeConfiguration(recode.enabled): the setting was edited in the
\* settings; setEnabled(newEnabled) on every watcher
enabledChange(newEnabled) ==
  /\ newEnabled # tracking.config
  /\ tracking' = [tracking EXCEPT !.config = newEnabled, !.enabled = newEnabled]
  /\ lastOp' = Op("enabledChange", NULL, TRUE, 0)
  /\ UNCHANGED <<changes, nextId, disk, fileCache, debounceTimers, events, pendingOperations,
                 currentBatchId, view, refreshPending, rollbackData, dialog,
                 cleanupPending, saves, restored, limits, expiries>>

\* ------------------------------------------------------------------ system
\* a file the watcher has not cached reads as '' in recordChange
NotCached == ""

\* initWorkspace: the watcher is constructed (enabled = true) and started
\* only if recode.enabled is set; start() caches the files
initWorkspace(enabled) ==
  /\ changes = {}
  /\ nextId = 1
  /\ disk = [f \in Files |-> InitialContent]
  /\ fileCache = [f \in Files |-> IF enabled THEN InitialContent ELSE NotCached]
  /\ tracking = [config |-> enabled, started |-> enabled, enabled |-> TRUE]
  /\ debounceTimers = {}
  /\ events = [f \in Files |-> NoEvents]
  /\ expiries = {}
  /\ pendingOperations = [f \in Files |-> NoCtx]
  /\ currentBatchId = NoBatch
  /\ view = {}
  /\ refreshPending = FALSE
  /\ rollbackData = NoData
  /\ dialog = NoDialog
  /\ cleanupPending = TRUE
  /\ saves = 0
  /\ restored = {}
  /\ lastOp = Op("init", NULL, TRUE, 0)

\* recode.enabled has its default, true
InitState == initWorkspace(TRUE)

\* saves, debounce timers and the history view's single rollback and restore
Init == InitState /\ limits = [ids |-> MaxId, saves |-> MaxSaves, history |-> FALSE]

Next ==
  \/ \E f \in Files, c \in Contents : UserSave(f, c)
  \/ \E f \in Files : recordChange(f)
  \/ \E id \in Ids : handleRollback(id)
  \/ closeModal
  \/ executeRollback
  \/ \E id \in Ids : handleRestore(id)
  \/ refreshTimer

Spec == Init /\ [][Next]_vars

\* the same with the batch rollback and the timeline rollback
InitAll == InitState /\ limits = [ids |-> MaxIdAll, saves |-> MaxSavesAll, history |-> FALSE]

NextAll ==
  \/ Next
  \/ \E ids \in SUBSET Ids : handleBatchRollback(ids)
  \/ batchConfirm
  \/ dialogCancel
  \/ \E id \in Ids : rollbackFromTimeline(id)
  \/ timelineConfirm

SpecAll == InitAll /\ [][NextAll]_vars

\* the same with the batch timer and the retention clean-ups
NextRetention ==
  \/ NextAll
  \/ BatchTimerExpire
  \/ cleanupTimer
  \/ retentionChange

SpecRetention == InitAll /\ [][NextRetention]_vars

\* the batch rollback of the history view with failing storage or files
InitBatch == InitState /\ limits = [ids |-> MaxIdBatch, saves |-> MaxSavesBatch, history |-> FALSE]

NextBatch ==
  \/ \E f \in Files, c \in Contents : UserSave(f, c)
  \/ \E f \in Files : recordChange(f)
  \/ \E ids \in SUBSET Ids : handleBatchRollback(ids)
  \/ batchConfirm
  \/ batchConfirmFailing
  \/ dialogCancel
  \/ refreshTimer

SpecBatch == InitBatch /\ [][NextBatch]_vars

\* the history view with store calls that fail (and swallow the exception)
InitStore == InitState /\ limits = [ids |-> MaxIdStore, saves |-> MaxSavesStore, history |-> FALSE]

NextStore ==
  \/ Next
  \/ executeRollbackMarkFails
  \/ \E id \in Ids : handleRestoreStoreFails(id)

SpecStore == InitStore /\ [][NextStore]_vars

\* the same handlers with the history of the change events
InitEvents == InitState /\ limits = [ids |-> MaxIdEvents, saves |-> MaxSavesEvents, history |-> TRUE]

SpecEvents == InitEvents /\ [][NextAll]_vars

\* the watcher alone: saves, debounce timers and the batch timer
InitWatcher == InitState /\ limits = [ids |-> MaxIdWatcher, saves |-> MaxSavesWatcher, history |-> TRUE]

NextWatcher ==
  \/ \E f \in Files, c \in Contents : UserSave(f, c)
  \/ \E f \in Files : recordChange(f)
  \/ BatchTimerExpire

SpecWatcher == InitWatcher /\ [][NextWatcher]_vars

\* the same with the setting recode.enabled, set or not at activation and
\* changed by the two commands and in the settings
InitTracking ==
  /\ \E enabled \in BOOLEAN : initWorkspace(enabled)
  /\ limits = [ids |-> MaxIdTracking, saves |-> MaxSavesTracking, history |-> TRUE]

NextTracking ==
  \/ Next
  \/ enableCommand
  \/ disableCommand
  \/ \E newEnabled \in BOOLEAN : enabledChange(newEnabled)

SpecTracking == InitTracking /\ [][NextTracking]_vars

\* the history view with file writes that fail
InitWrites == InitState /\ limits = [ids |-> MaxIdWrites, saves |-> MaxSavesWrites, history |-> FALSE]

NextWrites ==
  \/ Next
  \/ executeRollbackWriteFails
  \/ \E id \in Ids : handleRestoreWriteFails(id)

SpecWrites == InitWrites /\ [][NextWrites]_vars

\* the history view with the confirmRollback message in flight between the
\* webview and the extension host
InitMessages == InitState /\ limits = [ids |-> MaxIdMessages, saves |-> MaxSavesMessages, history |-> FALSE]

NextMessages ==
  \/ \E f \in Files, c \in Contents : UserSave(f, c)
  \/ \E f \in Files : recordChange(f)
  \/ \E id \in Ids : handleRollback(id)
  \/ closeModal
  \/ confirmRollback
  \/ onDidReceiveMessage
  \/ \E id \in Ids : handleRestore(id)
  \/ refreshTimer

SpecMessages == InitMessages /\ [][NextMessages]_vars

\* ================================================================== claims
RecordsOf(ch, f) == {r \in ch : r.file_path = f}

NewRollbacks == {R \in changes' : R.id \notin IdsOf(changes) /\ R.operation_type = "rollback"}

\* C1: a successful single rollback to target t of file f, committed while
\* the file holds c, adds a record R whose id exceeds every existing id, with
\* operation_type rollback, rollback_to_id t.id, old_content c and
\* new_content t.new_content, and afterwards every record of f with
\* t.id < id < R.id has covered_by_rollback_id = R.id.
C1_RollbackCommit ==
  [][(lastOp'.op = "executeRollback" /\ lastOp'.ok) =>
       \E t \in changes :
         /\ t.id = lastOp'.id
         /\ \E R \in changes' :
              /\ \A r \in changes : r.id < R.id
              /\ R.operation_type = "rollback"
              /\ R.rollback_to_id = t.id
              /\ R.file_path = t.file_path
              /\ R.old_content = disk[t.file_path]
              /\ R.new_content = t.new_content
              /\ \A r \in changes' :
                   (r.file_path = t.file_path /\ t.id < r.id /\ r.id < R.id)
                     => r.covered_by_rollback_id = R.id]_vars

\* a rollback has just committed and marked records, one of which had been
\* covered by an earlier rollback
C1_Witness ==
  /\ lastOp.op = "executeRollback" /\ lastOp.ok /\ lastOp.count >= 2
  /\ \E r \in changes : r.covered_by_rollback_id = nextId - 1 /\ r.operation_type = "rollback"

\* C2: on every rollback path (single, batch, timeline) the content written
\* to the file is the new_content of the target record.
C2_RollbackWritesNewContent ==
  [][\A R \in NewRollbacks :
       \E t \in changes \cup dialog.change :
         t.id = R.rollback_to_id /\ disk'[R.file_path] = t.new_content]_vars

\* a batch rollback has just written the new_content of a target whose
\* old_content differs
C2_Witness ==
  /\ lastOp.op = "batchConfirm" /\ lastOp.id >= 1
  /\ \E R \in changes, t \in changes :
       /\ R.id = nextId - 1 /\ R.operation_type = "rollback"
       /\ t.id = R.rollback_to_id /\ t.old_content # t.new_content
       /\ disk[R.file_path] = t.new_content

C4_RoundTrip ==
  \A t \in changes :
    isSelectable(changes, t) =>
      LET currentContent == disk[t.file_path]
          afterRollback == rollbackStore(changes, nextId, t, currentContent, NoBatch)
          R == CHOOSE r \in afterRollback : r.id = nextId
          afterRestore == restoreStore(afterRollback, nextId)
      IN /\ afterRestore = changes
         /\ restoreContent(R) = currentContent

\* C5: a rollback commit whose target does not satisfy canRollbackTo at
\* commit time creates no record (so every rollback record that appears
\* names a target that was eligible).
C5_StaleTargetRejected ==
  [][\A R \in NewRollbacks :
       \E t \in changes : t.id = R.rollback_to_id /\ isSelectable(changes, t)]_vars

\* C6: a restore of a record that does not satisfy canRestore writes no
\* file, clears no coverage, deletes no record and sets no token.
C6_RestoreOnlyIfCanRestore ==
  [][(/\ lastOp'.op = "handleRestore"
      /\ ~ \E r \in changes : r.id = lastOp'.id /\ canRestore(changes, r))
       => UNCHANGED <<changes, disk, pendingOperations>>]_vars

\* C7: a restore of an id that an earlier restore has deleted reports
\* failure and changes neither the store nor the file nor a token.
C7_SecondRestore ==
  [][(lastOp'.op = "handleRestore" /\ lastOp'.id \in restored) =>
       (~lastOp'.ok /\ UNCHANGED <<changes, disk, pendingOperations>>)]_vars

\* the restore button of an already restored record has just been used again
C7_Witness ==
  /\ lastOp.op = "handleRestore" /\ ~lastOp.ok
  /\ lastOp.id \in restored

\* C8: every record whose covered_by_rollback_id is k has a record R with
\* id k in the store, R is a rollback record of the same file, and
\* R.rollback_to_id < record.id < R.id.
C8_CoverageWellFormed ==
  \A r \in changes :
    r.covered_by_rollback_id # NULL =>
      \E R \in changes :
        /\ R.id = r.covered_by_rollback_id
        /\ R.operation_type = "rollback"
        /\ R.file_path = r.file_path
        /\ R.rollback_to_id < r.id
        /\ r.id < R.id

\* a rollback committed from the timeline has just covered a record, and the
\* record it covers is not a rollback target
C8_Witness ==
  /\ lastOp.op = "timelineConfirm" /\ lastOp.count >= 1
  /\ \E r \in changes :
       r.covered_by_rollback_id = nextId - 1 /\ ~isRollbackTarget(changes, r)

\* C9: the rollback_to_id of every rollback record names a record in the
\* store, of the same file and with a smaller id.
C9_TargetPresent ==
  \A R \in changes :
    R.operation_type = "rollback" =>
      \E t \in changes :
        t.id = R.rollback_to_id /\ t.file_path = R.file_path /\ t.id < R.id

\* C10: every file with a record has exactly one latest record.
C10_OneLatestPerFile ==
  \A f \in Files :
    RecordsOf(changes, f) # {} =>
      Cardinality({r \in RecordsOf(changes, f) : isLatestForFile(changes, r)}) = 1

\* both files have records and the latest record of all is not the only one
C10_Witness ==
  /\ \A f \in Files : RecordsOf(changes, f) # {}
  /\ Cardinality(changes) >= 3

\* C11: markCoveredByRollback(file, R, t) changes covered_by_rollback_id
\* only on records of that file with t < id < R that are uncovered; a record
\* covered by an earlier rollback keeps its covered_by_rollback_id.
C11_MarkOnlyUncovered ==
  \A t \in changes :
    isSelectable(changes, t) =>
      LET rollbackId == nextId
          inserted == insertChange(changes, rollbackId, t.file_path, disk[t.file_path],
                                   t.new_content, NoBatch, "rollback", t.id)
          marked == markCoveredByRollback(inserted, t.file_path, rollbackId, t.id)
      IN \A r \in inserted, q \in marked :
           (q.id = r.id /\ q.covered_by_rollback_id # r.covered_by_rollback_id) =>
             /\ r.file_path = t.file_path
             /\ t.id < r.id /\ r.id < rollbackId
             /\ r.covered_by_rollback_id = NULL
             /\ q.covered_by_rollback_id = rollbackId

\* C12: a second markCoveredByRollback with the same (file_path,
\* rollback_id, rollback_to_id) leaves the store unchanged and reports 0
\* affected rows.
C12_MarkIdempotent ==
  \A t \in changes :
    isSelectable(changes, t) =>
      LET rollbackId == nextId
          once == rollbackStore(changes, rollbackId, t, disk[t.file_path], NoBatch)
      IN /\ markCoveredByRollback(once, t.file_path, rollbackId, t.id) = once
         /\ markCoveredCount(once, t.file_path, rollbackId, t.id) = 0

\* C13: with a file ROLLED_BACK when its latest record is a rollback record
\* and NORMAL otherwise, a recorded edit leads to NORMAL, a rollback commit
\* leads to ROLLED_BACK and a restore from ROLLED_BACK leads to NORMAL.
C13_FileStateMachine ==
  [][/\ (lastOp'.op = "recordChange" /\ lastOp'.ok) =>
          \A r \in changes' : r.id \notin IdsOf(changes) =>
             isLatestForFile(changes', r) /\ r.operation_type # "rollback"
     /\ (lastOp'.op = "executeRollback" /\ lastOp'.ok) =>
          \A r \in changes' : r.id \notin IdsOf(changes) =>
             isLatestForFile(changes', r) /\ r.operation_type = "rollback"
     /\ (lastOp'.op = "handleRestore" /\ lastOp'.ok) =>
          \A R \in changes : (R.id = lastOp'.id /\ canRestore(changes, R)) =>
             \A r \in changes' :
                (r.file_path = R.file_path /\ isLatestForFile(changes', r))
                   => r.operation_type # "rollback"]_vars

\* C14: a rollback record that is not the latest record of its file does
\* not satisfy canRestore in the next state, hence in no later state (a
\* deleted id is never inserted again).
C14_SupersededNeverRestorable ==
  [][\A R \in changes :
       (R.operation_type = "rollback" /\ ~isLatestForFile(changes, R)) =>
          \A Q \in changes' : Q.id = R.id => ~canRestore(changes', Q)]_vars

C16_NoRollbackOnLatest ==
  \A row \in getHtmlForWebview(changes) :
    \A r \in changes :
      (r.id = row.id /\ isLatestForFile(changes, r)) => ~row.rollback

\* C17: once an ordinary edit of a file has been recorded, no record of that
\* file is marked as covered (in particular after a rollback of the file
\* followed by a new edit).
C17_EditClearsCoverage ==
  [][(lastOp'.op = "recordChange" /\ lastOp'.ok) =>
       \A n \in changes' : n.id \notin IdsOf(changes) =>
          \A r \in changes' :
             r.file_path = n.file_path => r.covered_by_rollback_id = NULL]_vars

\* C18: the rollback preview for target t hands over, newest first, exactly
\* the records of t's file with id >= t.id, t included, and changes neither
\* the store nor a file nor a suppression token.
C18_PreviewReadOnly ==
  [][(lastOp'.op = "handleRollback") =>
       /\ UNCHANGED <<changes, nextId, disk, fileCache, pendingOperations, debounceTimers>>
       /\ lastOp'.ok =>
            \E t \in changes :
              /\ t.id = lastOp'.id
              /\ rollbackData'.target = t.id
              /\ LET later == rollbackData'.laterChanges
                 IN /\ Range(later) = {r.id : r \in {q \in changes :
                                          q.file_path = t.file_path /\ q.id >= t.id}}
                    /\ \A i, j \in 1..Len(later) : i < j => later[i] > later[j]
                    /\ t.id \in Range(later)]_vars

\* a preview has just listed several records of the target's file while a
\* later record of another file exists
C18_Witness ==
  /\ lastOp.op = "handleRollback" /\ lastOp.ok
  /\ Len(rollbackData.laterChanges) >= 2
  /\ \E t \in changes, q \in changes :
       t.id = rollbackData.target /\ q.file_path # t.file_path /\ q.id > t.id

\* C19: on every rollback path a rollback record is only inserted by a step
\* that starts with a request awaiting confirmation; the request step and a
\* cancelled request change neither store nor file nor token; a restore
\* acts in the step of its request, with no confirmation pending before or
\* after.
C19_RollbackTwoStep ==
  [][/\ NewRollbacks # {} => (rollbackData # NoData \/ dialog.kind # "none")
     /\ ((rollbackData = NoData /\ rollbackData' # NoData)
           \/ (dialog.kind = "none" /\ dialog'.kind # "none"))
          => UNCHANGED <<changes, nextId, disk, pendingOperations>>
     /\ ((dialog.kind # "none" /\ dialog'.kind = "none" /\ NewRollbacks = {})
           \/ (rollbackData # NoData /\ rollbackData' = NoData /\ view' = view
                 /\ NewRollbacks = {}))
          => UNCHANGED <<changes, nextId, disk, pendingOperations>>
     /\ (lastOp'.op = "handleRestore" /\ lastOp'.ok) =>
          /\ rollbackData = NoData /\ dialog = NoDialog
          /\ rollbackData' = NoData /\ dialog' = NoDialog
          /\ lastOp'.id \in IdsOf(changes) \ IdsOf(changes')]_vars

\* a timeline or batch confirmation dialog has just been dismissed, on a
\* store that holds a rollback record committed through an earlier request
C19_Witness ==
  /\ lastOp.op = "dialogCancel" /\ dialog = NoDialog
  /\ \E R \in changes : R.operation_type = "rollback"

\* C20: in a batch rollback the targets whose rollback fails are counted as
\* failed, and every other target of the batch is committed: its rollback
\* record is in the store with its coverage and its file holds the target's
\* new_content.
C20_BatchFailSoft ==
  [][(lastOp'.op = "batchConfirm") =>
       LET targets == rollbackTargets(changes, dialog.ids)
       IN \E failed \in SUBSET targets :
            /\ Cardinality(failed) = lastOp'.count
            /\ Cardinality(targets \ failed) = lastOp'.id
            /\ lastOp'.ok = (failed = {})
            /\ \A t \in targets \ failed :
                 \E R \in NewRollbacks :
                   /\ R.rollback_to_id = t.id /\ R.file_path = t.file_path
                   /\ R.new_content = t.new_content
                   /\ disk'[t.file_path] = t.new_content
                   /\ \A r \in changes' :
                        (r.file_path = t.file_path /\ t.id < r.id /\ r.id < R.id)
                          => r.covered_by_rollback_id = R.id]_vars

\* a batch over two files has just finished with one file rolled back and
\* the other one failed
C20_Witness ==
  /\ lastOp.op = "batchConfirm" /\ lastOp.id = 1 /\ lastOp.count = 1
  /\ \E R \in changes : R.id = nextId - 1 /\ R.operation_type = "rollback"
                         /\ disk[R.file_path] = R.new_content

\* C21: a rollback or restore in which markCoveredByRollback,
\* clearCoveredByRollback or deleteChange failed is not reported as
\* successful.
C21_StoreFailureSurfaced ==
  [][(lastOp'.op \in {"executeRollback", "handleRestore"} /\ lastOp'.fault)
       => ~lastOp'.ok]_vars

\* C22: a rollback commit deletes no record, changes no field of an existing
\* record other than covered_by_rollback_id, and changes
\* covered_by_rollback_id only on records of a file it rolls back.
C22_RollbackFrame ==
  [][NewRollbacks # {} =>
       \A r \in changes :
         \E q \in changes' :
           /\ q.id = r.id
           /\ [q EXCEPT !.covered_by_rollback_id = r.covered_by_rollback_id] = r
           /\ q.covered_by_rollback_id # r.covered_by_rollback_id =>
                \E R \in NewRollbacks : R.file_path = r.file_path]_vars

\* a rollback has just committed while a record of another file lies
\* between its target and the rollback record
C22_Witness ==
  /\ lastOp.op \in {"executeRollback", "batchConfirm", "timelineConfirm"}
  /\ \E R \in changes, q \in changes :
       /\ R.id = nextId - 1 /\ R.operation_type = "rollback"
       /\ q.file_path # R.file_path
       /\ R.rollback_to_id < q.id /\ q.id < R.id
       /\ q.covered_by_rollback_id = NULL

\* the debounce timer of f fires in this step
Fires(f) == lastOp'.op = "recordChange" /\ f \in debounceTimers /\ f \notin debounceTimers'

EditsOf(ch) == {r \in ch : r.operation_type = "edit"}

C24_TokenShortLived ==
  [][\A f \in Files :
       (Fires(f) /\ pendingOperations[f].skipRecording
                 /\ ~sameContent(fileCache[f], disk[f]))
         => events[f].last = "core"]_vars

NewRecords == {n \in changes' : n.id \notin IdsOf(changes)}

\* C25: a record created by any step has as old_content the new_content of
\* the record that was the latest of its file when it was created.
C25_OldContentChains ==
  [][\A n \in NewRecords :
       \A q \in changes :
         (q.file_path = n.file_path /\ isLatestForFile(changes, q))
           => n.old_content = q.new_content]_vars

\* C26: ids are unique, and a record created by any step has an id larger
\* than the id of every record present and of every rollback record that a
\* restore has deleted.
C26_IdsIncrease ==
  [][/\ \A r, q \in changes' : r.id = q.id => r = q
     /\ \A n \in NewRecords :
          /\ \A q \in changes : q.id < n.id
          /\ \A id \in restored : id < n.id]_vars

\* a record was created after a rollback record with a smaller id was deleted
C26_Witness ==
  /\ lastOp.op \in {"recordChange", "executeRollback"} /\ lastOp.ok
  /\ \E n \in changes :
       /\ n.id = nextId - 1
       /\ \E id \in restored : id < n.id /\ \A q \in changes : q.id # n.id => q.id < id

\* C27: every rollback record has no batch_id.
C27_RollbackNoBatch ==
  \A r \in changes : r.operation_type = "rollback" => r.batch_id = NoBatch

\* C27 as amended: the rollback records created by a single or a timeline
\* rollback have no batch_id; those created by one batch rollback have one
\* batch_id in common.
C27_RollbackBatchId ==
  /\ (lastOp.op \in {"executeRollback", "timelineConfirm"} /\ lastOp.ok) =>
       \E R \in changes : /\ R.id = nextId - 1 /\ R.operation_type = "rollback"
                          /\ R.batch_id = NoBatch
  /\ lastOp.op = "batchConfirm" =>
       \E batchId \in {r.batch_id : r \in changes} \cup {NoBatch} :
         /\ lastOp.id > 0 => batchId # NoBatch
         /\ \A id \in (nextId - lastOp.id)..(nextId - 1) :
              \E R \in changes : /\ R.id = id /\ R.operation_type = "rollback"
                                 /\ R.batch_id = batchId

\* a batch rollback has just added a rollback record beside that of a
\* single or timeline rollback
C27_Witness ==
  /\ lastOp.op = "batchConfirm" /\ lastOp.id > 0
  /\ \E R, Q \in changes :
       /\ R.id = nextId - 1 /\ R.operation_type = "rollback" /\ R.batch_id # NoBatch
       /\ Q.operation_type = "rollback" /\ Q.batch_id = NoBatch

\* C28: while recode.enabled is true the watcher of the workspace is started
\* and enabled; while it is false the watcher receives no change event.
C28_TrackingFollowsSetting ==
  IF tracking.config THEN tracking.started /\ tracking.enabled
  ELSE ~watching(tracking)

\* C29: the change events of a file merged into one pending debounce timer
\* create no edit record of it; the firing creates at most one record, of
\* that file, whose old_content is the content cached before the first of
\* these events and whose new_content is the content on disk, and none if
\* the two are equal.
C29_Debounce ==
  [][\A f \in Files :
       /\ (f \in debounceTimers /\ ~Fires(f)) =>
            \A n \in NewRecords : n.file_path = f => n.operation_type # "edit"
       /\ Fires(f) =>
            /\ Cardinality(NewRecords) <= 1
            /\ \A n \in NewRecords : /\ n.file_path = f
                                     /\ n.old_content = events[f].cached
                                     /\ n.new_content = disk[f]
            /\ events[f].cached = disk[f] => NewRecords = {}]_vars

\* C30: two edit records have the same batch_id exactly if the batch timer
\* did not expire between their recordings, and a recording leaves the batch
\* of its record current.
C30_BatchWindow ==
  /\ \A r, q \in EditsOf(changes) :
       r.id < q.id =>
         ((r.batch_id = q.batch_id) <=> ~\E k \in expiries : r.id < k /\ k <= q.id)
  /\ (lastOp.op = "recordChange" /\ lastOp.ok) =>
       \E n \in EditsOf(changes) : n.id = nextId - 1 /\ currentBatchId = n.batch_id

\* two recordings in one batch, an expiry, and a recording in a new batch
C30_Witness ==
  \E r, q, n \in EditsOf(changes) :
    /\ r.id < q.id /\ q.id < n.id
    /\ r.batch_id = q.batch_id /\ q.batch_id # n.batch_id
    /\ q.id + 1 \in expiries
    /\ currentBatchId = n.batch_id

\* C31: a batch rollback without failure creates, for each file that has a
\* selected record, exactly one rollback record, whose target is the selected
\* record of that file with the smallest id; it creates no other record, and
\* all these records have the same batch_id.
C31_BatchOnePerFile ==
  [][(lastOp'.op = "batchConfirm" /\ lastOp'.ok) =>
       LET found == {r \in changes : r.id \in dialog.ids}
       IN /\ NewRecords = NewRollbacks
          /\ \A r \in found :
               \E R \in NewRollbacks :
                 /\ R.file_path = r.file_path
                 /\ R.rollback_to_id \in IdsOf(found)
                 /\ R.rollback_to_id <= r.id
                 /\ \A Q \in NewRollbacks : Q.file_path = R.file_path => Q = R
          /\ \A R \in NewRollbacks : \E r \in found : r.file_path = R.file_path
          /\ \A R, Q \in NewRollbacks : R.batch_id = Q.batch_id /\ R.batch_id # NoBatch]_vars

\* a batch rollback of two files has added two rollback records
C31_Witness ==
  /\ lastOp.op = "batchConfirm" /\ lastOp.ok /\ lastOp.id = 2
  /\ \E R, Q \in changes :
       /\ R.id = nextId - 1 /\ Q.id = nextId - 2
       /\ R.operation_type = "rollback" /\ Q.operation_type = "rollback"
       /\ R.file_path # Q.file_path /\ R.batch_id = Q.batch_id

\* C32: the result of a batch rollback accounts for every requested id: the
\* successes and failures reported add up to the number of files that have a
\* requested record, and a requested id without a record is reported as a
\* failure.
C32_BatchAccountsForIds ==
  [][lastOp'.op = "batchConfirm" =>
       LET found == {r \in changes : r.id \in dialog.ids}
           missing == dialog.ids \ IdsOf(changes)
       IN /\ missing = {} =>
               lastOp'.id + lastOp'.count = Cardinality({r.file_path : r \in found})
          /\ missing # {} => (lastOp'.count > 0 /\ ~lastOp'.ok)]_vars

\* C33: the insert of the rollback record and markCoveredByRollback run as
\* one uninterrupted step: right after a rollback commit the rollback record
\* holds the newest id, and every other record of its file above the target
\* lies below the rollback record and is covered by it.
C33_RollbackCommitAtomic ==
  LET committed(R) ==
        /\ R.operation_type = "rollback"
        /\ \A r \in changes :
             (r.file_path = R.file_path /\ r.id > R.rollback_to_id /\ r.id # R.id) =>
               (r.id < R.id /\ r.covered_by_rollback_id = R.id)
  IN /\ (lastOp.op \in {"executeRollback", "timelineConfirm"} /\ lastOp.ok) =>
          \E R \in changes : R.id = nextId - 1 /\ committed(R)
     /\ lastOp.op = "batchConfirm" =>
          \A id \in (nextId - lastOp.id)..(nextId - 1) :
            \E R \in changes : R.id = id /\ committed(R)

\* a rollback has just marked a record while the debounce timer of an
\* earlier save of that file was pending
C33_Witness ==
  /\ lastOp.op = "executeRollback" /\ lastOp.ok /\ lastOp.count >= 1
  /\ \E R, r \in changes :
       /\ R.id = nextId - 1 /\ R.operation_type = "rollback"
       /\ r.file_path = R.file_path /\ r.covered_by_rollback_id = R.id
       /\ disk[R.file_path] # fileCache[R.file_path]

\* C34: quiescence: a file that has a record and no pending debounce timer
\* has the new_content of its latest record on disk, whatever the
\* interleaving of saves, timer firings, rollbacks and restores.
C34_Quiescence ==
  \A f \in Files :
    (RecordsOf(changes, f) # {} /\ f \notin debounceTimers) =>
      \E r \in RecordsOf(changes, f) :
        /\ r.id = Max(IdsOf(RecordsOf(changes, f)))
        /\ r.new_content = disk[f]

\* C35: every record that a confirmed rollback marks as covered was in the
\* preview list (laterChanges) shown for that rollback, also when edits of
\* the file are recorded between the preview and the confirmation.
C35_MarkedWerePreviewed ==
  [][(dialog.kind = "confirmRollback" /\ lastOp'.op = "executeRollback" /\ lastOp'.ok) =>
       \A r \in changes' :
         (r.covered_by_rollback_id = nextId /\ r.id # nextId) => r.id \in IdsOf(dialog.change)]_vars

\* window sizes tried in place of the view's getRecentChanges(100)
WindowSizes == 1..3

\* C36: the status derived over the window of the N most recent records
\* equals the status derived over the full history, for every record of the
\* window: isLatestForFile, canRestore and isRollbackTarget agree.
C36_WindowStatus ==
  \A N \in WindowSizes :
    LET win == Range(getRecentChanges(changes, N))
    IN \A r \in win :
         /\ isLatestForFile(win, r) = isLatestForFile(changes, r)
         /\ canRestore(win, r) = canRestore(changes, r)
         /\ isRollbackTarget(win, r) = isRollbackTarget(changes, r)

\* a window of two records leaves out the oldest record and holds a
\* rollback record with its target and a record that is not the latest
C36_Witness ==
  LET win == Range(getRecentChanges(changes, 2))
  IN /\ Cardinality(changes) >= 3
     /\ \E r, c \in win : /\ isRollbackTarget(changes, r)
                          /\ canRestore(changes, c)
                          /\ ~isLatestForFile(changes, r)

\* C37: a rollback that is reported as failed because its file write failed
\* leaves the change history as it was: no rollback record has been added
\* and no record has been marked covered.
C37_FailedRollbackNoTrace ==
  [][(lastOp'.op = "executeRollback" /\ lastOp'.fault /\ ~lastOp'.ok) =>
       changes' = changes]_vars

\* C38: if the file write of a restore fails, the restore is reported as
\* failed, no coverage is cleared, the rollback record is not deleted, and
\* the suppression token set for the path is cleared again.
C38_FailedRestore ==
  [][(lastOp'.op = "handleRestore" /\ lastOp'.fault) =>
       /\ ~lastOp'.ok
       /\ changes' = changes
       /\ restored' = restored
       /\ \A R \in changes :
            R.id = lastOp'.id => pendingOperations'[R.file_path] = NoCtx]_vars

\* the write of a restore has just failed: the rollback record is still
\* there with the record it covers, and no token is pending for its file
C38_Witness ==
  /\ lastOp.op = "handleRestore" /\ lastOp.fault /\ ~lastOp.ok
  /\ \E R, r \in changes :
       /\ R.id = lastOp.id /\ R.operation_type = "rollback"
       /\ r.covered_by_rollback_id = R.id
       /\ pendingOperations[R.file_path] = NoCtx
====
